---- MODULE Spec2Model ----
(***************************************************************************)
(* Model of src/src/main.py: the lead dispatcher behind POST /call and the *)
(* audio relay behind WS /media (handle_conversation and its three         *)
(* listener tasks).  The spreadsheet, the telephony provider, the          *)
(* transcription provider and the language model are the environment:      *)
(* their answers (success, failure, the data they send) are chosen         *)
(* nondeterministically from small sets.                                   *)
(***************************************************************************)
EXTENDS Integers, Sequences, FiniteSets, TLC

(***************************************************************************)
(* Bounds of the exploration.                                              *)
(***************************************************************************)
NumRows == 2
MaxTriggers == 2
MaxTwEvents == 4
MaxDgMsgs == 3
MaxHeard == 1

(***************************************************************************)
(* Program constants.                                                      *)
(***************************************************************************)
StatusCol == 5
SidCol == 6
HeaderOffset == 2

Dispatchers == {1, 2}
Sessions == {1, 2}

StatusValues == {"Pending", "pending", "Done"}
PhoneValues == {"", "+15550100"}
ProviderErrors == {"HTTP 400 invalid number", "HTTP 401 authenticate"}

\* A call identifier as the telephony provider assigns it; NoSid is the
\* absent identifier (None, an empty cell, an unset environment variable).
NoSid == <<>>
Sid(n) == <<"CA", n>>

\* str.lower() on the status strings of the model.
Lower(s) ==
  CASE s = "Pending" -> "pending"
    [] s = "pending" -> "pending"
    [] s = "Calling" -> "calling"
    [] s = "Done" -> "done"
    [] OTHER -> s

VARIABLES
  sheet,           \* the spreadsheet's records, in stored order
  pc,              \* per dispatcher thread: where initiate_call stands
  lead,            \* per dispatcher: (lead_data, row_number) it read
  trigOf,          \* per dispatcher: the trigger it is serving
  nTrig,           \* number of POST /call triggers so far
  reads,           \* the store's log of get_all_records reads: did it succeed
  calls,           \* the provider's log of calls.create attempts
  writes,          \* the store's log of update_cell writes
  responses,       \* the HTTP responses of POST /call, in order of return
  currentCallSid,  \* os.environ["CURRENT_CALL_SID"]
  phase,           \* per session: NONE, CONNECTING, ACTIVE, CLOSED
  wsSid,           \* per session: the call_sid query parameter
  twOpen,          \* per session: the telephony socket is open
  dgOpen,          \* per session: the transcription socket is open
  httpOpen,        \* per session: the aiohttp ClientSession is open
  task,            \* per session: state of the three listener tasks
  configured,      \* per session: the nonlocal flag `configured`
  twIn,            \* per session: events received from the telephony socket
  dgOut,           \* per session: what was sent to the transcription socket
  dgIn,            \* per session: messages received from the provider
  queue,           \* per session: ai_response_queue
  enq,             \* per session: every transcript ever put on the queue
  deq,             \* per session: every transcript ever taken off the queue
  updates,         \* the provider's log of live call updates (spoken replies)
  logged           \* per session: the error lines printed

dispatchVars == <<sheet, pc, lead, trigOf, nTrig, reads, calls, writes, responses>>
relayVars == <<phase, wsSid, twOpen, dgOpen, httpOpen, task, configured,
               twIn, dgOut, dgIn, queue, enq, deq, updates, logged>>
vars == <<dispatchVars, currentCallSid, relayVars>>

(***************************************************************************)
(* Lead Store Adapter.                                                     *)
(***************************************************************************)
Row(st, ph) == [Status |-> st, Phone |-> ph, CallSid |-> NoSid]

Sheets(n) == [1..n -> {Row(st, ph) : st \in StatusValues, ph \in PhoneValues}]

\* record.get('Status', '').lower() == 'pending'
IsPendingInverted(rec) == Lower(rec.Status) # "pending"
IsPending(rec) == Lower(rec.Status) = "pending"

\* enumerate(all_records) is 0-based and row 1 of the sheet is the header:
\* the record at position k (1-based here) is sheet row (k - 1) + 2.
RowNumber(k) == (k - 1) + HeaderOffset
RecordAt(row) == row - HeaderOffset + 1

NoLead == [found |-> FALSE, row |-> 0, phone |-> ""]
NoLocal == [row |-> 0, phone |-> "", sid |-> NoSid]

\* An adapter that would pass over the rows another dispatch has in hand.
GetPendingLeadClaimed(sh, readOk) ==
  LET free == {k \in DOMAIN sh :
                 /\ IsPending(sh[k])
                 /\ \A d \in Dispatchers : lead[d].row # RowNumber(k)}
  IN IF readOk /\ free # {}
     THEN LET k == CHOOSE i \in free : \A j \in free : i <= j
          IN [found |-> TRUE, row |-> RowNumber(k), phone |-> sh[k].Phone]
     ELSE NoLead

\* An adapter that would answer a failed read from the rows as last known.
GetPendingLeadIgnoresError(sh, readOk) ==
  IF \E k \in DOMAIN sh : IsPending(sh[k])
  THEN LET k == CHOOSE i \in DOMAIN sh :
                  IsPending(sh[i]) /\ \A j \in 1..(i - 1) : ~IsPending(sh[j])
       IN [found |-> TRUE, row |-> RowNumber(k), phone |-> sh[k].Phone]
  ELSE NoLead

\* An adapter that would pass over the pending rows without a phone number.
GetPendingLeadWithPhone(sh, readOk) ==
  LET able == {k \in DOMAIN sh : IsPending(sh[k]) /\ sh[k].Phone # ""}
  IN IF readOk /\ able # {}
     THEN LET k == CHOOSE i \in able : \A j \in able : i <= j
          IN [found |-> TRUE, row |-> RowNumber(k), phone |-> sh[k].Phone]
     ELSE NoLead

\* An adapter that would keep the last pending record of the scan.
GetPendingLeadLast(sh, readOk) ==
  IF readOk /\ \E k \in DOMAIN sh : IsPending(sh[k])
  THEN LET k == CHOOSE i \in DOMAIN sh :
                  IsPending(sh[i]) /\ \A j \in DOMAIN sh : j > i => ~IsPending(sh[j])
       IN [found |-> TRUE, row |-> RowNumber(k), phone |-> sh[k].Phone]
  ELSE NoLead

\* get_pending_lead(): the first pending record in stored order, or
\* (None, None) when there is none or when the read raised.
GetPendingLead(sh, readOk) ==
  IF readOk /\ \E k \in DOMAIN sh : IsPending(sh[k])
  THEN LET k == CHOOSE i \in DOMAIN sh :
                  IsPending(sh[i]) /\ \A j \in 1..(i - 1) : ~IsPending(sh[j])
       IN [found |-> TRUE, row |-> RowNumber(k), phone |-> sh[k].Phone]
  ELSE NoLead

\* sheet.update_cell(row_number, col, value)
UpdateCellNoHeader(sh, row, col, val) ==
  IF row \notin DOMAIN sh THEN sh
  ELSE IF col = StatusCol THEN [sh EXCEPT ![row].Status = val]
  ELSE IF col = SidCol THEN [sh EXCEPT ![row].CallSid = val]
  ELSE sh
UpdateCell(sh, row, col, val) ==
  LET k == RecordAt(row) IN
  IF k \notin DOMAIN sh THEN sh
  ELSE IF col = StatusCol THEN [sh EXCEPT ![k].Status = val]
  ELSE IF col = SidCol THEN [sh EXCEPT ![k].CallSid = val]
  ELSE sh

Write(d, row, col, val) ==
  [trig |-> trigOf[d], row |-> row, col |-> col, val |-> val]

Response(d, st, row, sid, http, detail) ==
  [trig |-> trigOf[d], status |-> st, row |-> row, call_sid |-> sid,
   http |-> http, detail |-> detail]

(***************************************************************************)
(* Call Dispatcher: POST /call, initiate_call().  The endpoint is a plain  *)
(* function, so the server runs each request in its own worker thread;     *)
(* the steps below are split at the blocking remote calls.                 *)
(***************************************************************************)
\* Line 95, `if not lead_phone`, negated.
HasPhoneAlways(ph) == TRUE
HasPhone(ph) == ph # ""

\* Line 116: the HTTPException raised on a provider error.
ErrorResponseOk(d, e) == Response(d, "calling", lead[d].row, NoSid, 200, "")
ErrorResponse(d, e) == Response(d, "error", lead[d].row, NoSid, 500, e)

\* Lines 88-97: the request arrives, the store is read, and the two early
\* returns are taken.
Trigger(d, maxTrig) ==
  /\ pc[d] = "idle"
  /\ nTrig < maxTrig
  /\ nTrig' = nTrig + 1
  /\ \E readOk \in BOOLEAN :
       /\ reads' = Append(reads, readOk)
       /\ LET got == GetPendingLead(sheet, readOk)
              resp(st) == [trig |-> nTrig + 1, status |-> st,
                           row |-> got.row, call_sid |-> NoSid, http |-> 200,
                           detail |-> ""]
          IN
          IF ~got.found
          THEN /\ responses' = Append(responses, resp("complete"))
               /\ UNCHANGED <<pc, lead, trigOf>>
          ELSE IF ~HasPhone(got.phone)
          THEN /\ responses' = Append(responses, resp("skipped"))
               /\ UNCHANGED <<pc, lead, trigOf>>
          ELSE /\ pc' = [pc EXCEPT ![d] = "placing"]
               /\ trigOf' = [trigOf EXCEPT ![d] = nTrig + 1]
               /\ lead' = [lead EXCEPT ![d] =
                           [row |-> got.row, phone |-> got.phone, sid |-> NoSid]]
               /\ UNCHANGED responses
  /\ UNCHANGED <<sheet, calls, writes, currentCallSid, relayVars>>

\* Lines 101-111 and 114-116: calls.create either returns a fresh call
\* identifier, which is stored in the process-wide slot, or raises, which
\* becomes the HTTP 500 response.
PlaceCall(d) ==
  /\ pc[d] = "placing"
  /\ \/ LET sid == Sid(Len(SelectSeq(calls, LAMBDA c : c.ok)) + 1) IN
        /\ calls' = Append(calls, [trig |-> trigOf[d], ok |-> TRUE,
                                   to |-> lead[d].phone, row |-> lead[d].row,
                                   sid |-> sid, err |-> ""])
        /\ currentCallSid' = sid
        /\ lead' = [lead EXCEPT ![d].sid = sid]
        /\ pc' = [pc EXCEPT ![d] = "writeStatus"]
        /\ UNCHANGED <<responses, trigOf>>
     \/ \E e \in ProviderErrors :
        /\ calls' = Append(calls, [trig |-> trigOf[d], ok |-> FALSE,
                                   to |-> lead[d].phone, row |-> lead[d].row,
                                   sid |-> NoSid, err |-> e])
        /\ responses' = Append(responses, ErrorResponse(d, e))
        /\ pc' = [pc EXCEPT ![d] = "idle"]
        /\ lead' = [lead EXCEPT ![d] = NoLocal]
        /\ trigOf' = [trigOf EXCEPT ![d] = 0]
        /\ UNCHANGED currentCallSid
  /\ UNCHANGED <<sheet, nTrig, reads, writes, relayVars>>

\* Lines 67-73 and 77-78 of set_lead_status, called from line 112: the status
\* cell is written, or the store raises (on authorising, opening or writing),
\* the error is printed and initiate_call returns "calling" all the same.
WriteStatus(d) ==
  /\ pc[d] = "writeStatus"
  /\ \/ /\ sheet' = UpdateCell(sheet, lead[d].row, StatusCol, "Calling")
        /\ writes' = Append(writes, Write(d, lead[d].row, StatusCol, "Calling"))
        /\ pc' = [pc EXCEPT ![d] = "writeSid"]
        /\ UNCHANGED <<responses, lead, trigOf>>
     \/ /\ responses' = Append(responses,
                 Response(d, "calling", lead[d].row, lead[d].sid, 200, ""))
        /\ pc' = [pc EXCEPT ![d] = "idle"]
        /\ lead' = [lead EXCEPT ![d] = NoLocal]
        /\ trigOf' = [trigOf EXCEPT ![d] = 0]
        /\ UNCHANGED <<sheet, writes>>
  /\ UNCHANGED <<nTrig, reads, calls, currentCallSid, relayVars>>

\* Lines 74-78 of set_lead_status and line 113: the call-identifier cell is
\* written when call_sid is truthy, or the store raises and the error is
\* printed; initiate_call returns "calling".
WriteSid(d) ==
  /\ pc[d] = "writeSid"
  /\ \/ /\ lead[d].sid # NoSid
        /\ sheet' = UpdateCell(sheet, lead[d].row, SidCol, lead[d].sid)
        /\ writes' = Append(writes, Write(d, lead[d].row, SidCol, lead[d].sid))
     \/ UNCHANGED <<sheet, writes>>
  /\ responses' = Append(responses,
           Response(d, "calling", lead[d].row, lead[d].sid, 200, ""))
  /\ pc' = [pc EXCEPT ![d] = "idle"]
  /\ lead' = [lead EXCEPT ![d] = NoLocal]
  /\ trigOf' = [trigOf EXCEPT ![d] = 0]
  /\ UNCHANGED <<nTrig, reads, calls, currentCallSid, relayVars>>

(***************************************************************************)
(* Base64, as base64.b64decode (binascii.a2b_base64, not strict) computes  *)
(* it.  A payload is a sequence of characters of the base64 alphabet,      *)
(* each written as its 6-bit value 0..63, with Pad (64) for "=".  Bytes    *)
(* are 0..255.                                                             *)
(***************************************************************************)
Pad == 64

\* The telephony provider's side of the round trip: standard base64 of a
\* raw audio chunk.
RECURSIVE B64Encode(_)
B64Encode(b) ==
  IF Len(b) = 0 THEN <<>>
  ELSE IF Len(b) = 1 THEN <<b[1] \div 4, (b[1] % 4) * 16, Pad, Pad>>
  ELSE IF Len(b) = 2
  THEN <<b[1] \div 4, (b[1] % 4) * 16 + b[2] \div 16, (b[2] % 16) * 4, Pad>>
  ELSE <<b[1] \div 4, (b[1] % 4) * 16 + b[2] \div 16,
         (b[2] % 16) * 4 + b[3] \div 64, b[3] % 64>>
       \o B64Encode(SubSeq(b, 4, Len(b)))

DecodeError == [ok |-> FALSE, data |-> <<>>]

\* The decoder's loop: quad is the position in the current group of four,
\* left the bits carried over, pads the padding characters seen in a row.
RECURSIVE B64Scan(_, _, _, _, _, _)
B64Scan(p, i, quad, left, pads, out) ==
  IF i > Len(p)
  THEN IF quad # 0 THEN DecodeError ELSE [ok |-> TRUE, data |-> out]
  ELSE IF p[i] = Pad
  THEN IF quad >= 2 /\ quad + pads + 1 >= 4
       THEN [ok |-> TRUE, data |-> out]
       ELSE B64Scan(p, i + 1, quad, left,
                    IF quad >= 2 THEN pads + 1 ELSE pads, out)
  ELSE IF quad = 0 THEN B64Scan(p, i + 1, 1, p[i], 0, out)
  ELSE IF quad = 1
  THEN B64Scan(p, i + 1, 2, p[i] % 16, 0,
               Append(out, (left * 4 + p[i] \div 16) % 256))
  ELSE IF quad = 2
  THEN B64Scan(p, i + 1, 3, p[i] % 4, 0,
               Append(out, (left * 16 + p[i] \div 4) % 256))
  ELSE B64Scan(p, i + 1, 0, 0, 0, Append(out, (left * 64 + p[i]) % 256))

\* A decoder that drops the two low bits carried into the third byte.
B64DecodeLossy(p) ==
  LET r == B64Scan(p, 1, 0, 0, 0, <<>>) IN
  [ok |-> r.ok,
   data |-> [i \in DOMAIN r.data |->
               IF i % 3 = 0 THEN r.data[i] % 64 ELSE r.data[i]]]
B64Decode(p) == B64Scan(p, 1, 0, 0, 0, <<>>)

(***************************************************************************)
(* What the two sockets carry.                                             *)
(***************************************************************************)
\* Raw audio chunks the telephony provider may send: every length class of
\* base64 padding, with low, middle and high byte values.
AudioChunks == {<<>>, <<255>>, <<0, 77>>, <<77, 255, 0>>, <<255, 0, 77, 128>>}

\* A media payload that is not base64 (one character short of a group).
BadPayload == <<19, 21, 9>>

\* A message as twilio_ws.receive() returns it.  body says what the frame
\* holds: "json" (a JSON object with an "event"), "malformed" (text that is
\* not a JSON object) or "bytes" (a binary frame, no "text" key).
TwMsg(type, body, event, hasPayload, payload) ==
  [type |-> type, body |-> body, event |-> event, hasPayload |-> hasPayload,
   payload |-> payload]

TwEvent(event) == TwMsg("websocket.receive", "json", event, FALSE, <<>>)
TwMedia(payload) == TwMsg("websocket.receive", "json", "media", TRUE, payload)
TwDisconnect == TwMsg("websocket.disconnect", "none", "", FALSE, <<>>)

TwMsgs(chunks) ==
  {TwEvent(e) : e \in {"connected", "start", "media", "stop"}}
    \cup {TwMedia(B64Encode(c)) : c \in chunks}
    \cup {TwMedia(BadPayload), TwDisconnect,
          TwMsg("websocket.receive", "malformed", "", FALSE, <<>>),
          TwMsg("websocket.receive", "bytes", "", FALSE, <<>>)}

\* Lines 149-158: the configuration message.
ConfigMsg ==
  [kind |-> "config",
   cfg |-> [type |-> "configure", encoding |-> "mulaw", sample_rate |-> 8000,
            channels |-> 1, model |-> "phonecall", language |-> "en",
            interim_results |-> FALSE, smart_format |-> TRUE]]

\* Lines 121-127 and 164: mulaw_silence(200, sample_rate), described by its
\* byte value and its length instead of written out.
MulawSilence(duration_ms, sample_rate) ==
  [kind |-> "silence", byte |-> 255, n |-> (sample_rate * duration_ms) \div 1000]

Audio(data, ev) == [kind |-> "audio", data |-> data, ev |-> ev]

\* Text as a sequence of characters, and str.strip() on it.
RECURSIVE LStrip(_)
LStrip(t) == IF t # <<>> /\ Head(t) = " " THEN LStrip(Tail(t)) ELSE t
RECURSIVE RStrip(_)
RStrip(t) ==
  IF t # <<>> /\ t[Len(t)] = " " THEN RStrip(SubSeq(t, 1, Len(t) - 1)) ELSE t
Strip(t) == RStrip(LStrip(t))

Transcripts == {<<>>, <<" ">>, <<"a">>, <<" ", "b", " ">>}
LlmTexts == {<<" ">>, <<"o", "k">>}
Filler == <<"O", "k", "a", "y", ".">>

\* A message as the transcription socket yields it.  wstype is the frame
\* type; json says whether a TEXT frame parses; alts is the number of
\* entries of channel.alternatives.
DgMsg(wstype, json, evtype, alts, transcript, is_final) ==
  [wstype |-> wstype, json |-> json, evtype |-> evtype, alts |-> alts,
   transcript |-> transcript, is_final |-> is_final]

DgMsgs ==
  {DgMsg("TEXT", TRUE, "Results", 1, t, TRUE) : t \in Transcripts}
    \cup {DgMsg("TEXT", TRUE, "Results", 1, <<"a">>, FALSE),
          DgMsg("TEXT", TRUE, "Results", 0, <<>>, TRUE),
          DgMsg("TEXT", TRUE, "Metadata", 0, <<>>, FALSE),
          DgMsg("TEXT", FALSE, "", 0, <<>>, FALSE),
          DgMsg("BINARY", FALSE, "", 0, <<>>, FALSE)}

(***************************************************************************)
(* WS /media: websocket_endpoint() and handle_conversation().  All tasks   *)
(* of all sessions share one event loop: a step runs from one await to     *)
(* the next.                                                               *)
(***************************************************************************)
Log(s, line) == [logged EXCEPT ![s] = @ \cup {line}]

\* Lines 302-311: the query parameter overwrites the process-wide slot when
\* it is present, then the handshake is accepted or fails.
WsOpen(s, sids) ==
  /\ phase[s] = "NONE"
  /\ \E sid \in sids :
       /\ wsSid' = [wsSid EXCEPT ![s] = sid]
       /\ currentCallSid' = IF sid # NoSid THEN sid ELSE currentCallSid
  /\ \/ /\ phase' = [phase EXCEPT ![s] = "CONNECTING"]
        /\ twOpen' = [twOpen EXCEPT ![s] = TRUE]
        /\ UNCHANGED logged
     \/ /\ phase' = [phase EXCEPT ![s] = "CLOSED"]
        /\ logged' = Log(s, "WebSocket Handshake failed")
        /\ UNCHANGED twOpen
  /\ UNCHANGED <<dispatchVars, dgOpen, httpOpen, task, configured, twIn, dgOut,
                 dgIn, queue, enq, deq, updates>>

\* Lines 134-143, 278-284 and 313-318: the client session is created and the
\* transcription socket is opened, after which the three tasks are started;
\* or ws_connect raises, handle_conversation is left through the exception
\* and websocket_endpoint prints it.
DgConnect(s) ==
  /\ phase[s] = "CONNECTING"
  /\ httpOpen' = [httpOpen EXCEPT ![s] = TRUE]
  /\ \/ /\ dgOpen' = [dgOpen EXCEPT ![s] = TRUE]
        /\ phase' = [phase EXCEPT ![s] = "ACTIVE"]
        /\ task' = [task EXCEPT ![s] = [tw |-> "run", dg |-> "run", ai |-> "run"]]
        /\ UNCHANGED logged
     \/ /\ phase' = [phase EXCEPT ![s] = "CLOSED"]
        /\ logged' = Log(s, "WebSocket conversation handler failed")
        /\ UNCHANGED <<dgOpen, task>>
  /\ UNCHANGED <<dispatchVars, currentCallSid, wsSid, twOpen, configured, twIn,
                 dgOut, dgIn, queue, enq, deq, updates>>

\* Lines 146-168, configure_deepgram(): what is sent, and whether the flag
\* is set.  A send on a closed socket raises; the exception is printed.
ConfigureDeepgramLocalFlag(out, open, sample_rate) ==
  IF open
  THEN [ok |-> FALSE, out |-> out \o <<ConfigMsg, MulawSilence(200, sample_rate)>>]
  ELSE [ok |-> FALSE, out |-> out]
ConfigureDeepgram(out, open, sample_rate) ==
  IF open
  THEN [ok |-> TRUE, out |-> out \o <<ConfigMsg, MulawSilence(200, sample_rate)>>]
  ELSE [ok |-> FALSE, out |-> out]

\* Lines 221-229: the payload is decoded and sent; a missing payload, a
\* payload that does not decode and a send on a closed socket all raise,
\* and the exception is printed.  ev is the event's place in the input.
ForwardMediaFront(out, open, m, ev) ==
  LET dec == IF m.hasPayload THEN B64Decode(m.payload) ELSE DecodeError IN
  IF dec.ok /\ open
  THEN [ok |-> TRUE, out |-> <<Audio(dec.data, ev)>> \o out]
  ELSE [ok |-> FALSE, out |-> out]
ForwardMedia(out, open, m, ev) ==
  LET dec == IF m.hasPayload THEN B64Decode(m.payload) ELSE DecodeError IN
  IF dec.ok /\ open
  THEN [ok |-> TRUE, out |-> Append(out, Audio(dec.data, ev))]
  ELSE [ok |-> FALSE, out |-> out]

\* Lines 200-238, twilio_listener(): one turn of its loop, from the receive
\* to the next receive or to the end of the task.
TwilioRecv(s, maxEv, msgs) ==
  /\ phase[s] = "ACTIVE"
  /\ task[s].tw = "run"
  /\ Len(twIn[s]) < maxEv
  /\ \E m \in msgs :
       LET ev == Len(twIn[s]) + 1
           cfg == ConfigureDeepgram(dgOut[s], dgOpen[s], 8000)
           fwd == ForwardMedia(dgOut[s], dgOpen[s], m, ev)
           end == [task EXCEPT ![s].tw = "done"]
       IN
       /\ twIn' = [twIn EXCEPT ![s] = Append(@, m)]
       /\ IF m.type = "websocket.disconnect"
          THEN /\ task' = end
               /\ twOpen' = [twOpen EXCEPT ![s] = FALSE]
               /\ UNCHANGED <<configured, dgOut, logged>>
          ELSE IF m.body = "bytes"
          THEN UNCHANGED <<task, twOpen, configured, dgOut, logged>>
          ELSE IF m.body = "malformed"
          THEN /\ task' = end
               /\ logged' = Log(s, "twilio_listener exception")
               /\ UNCHANGED <<twOpen, configured, dgOut>>
          ELSE IF m.event = "start"
          THEN /\ dgOut' = [dgOut EXCEPT ![s] = cfg.out]
               /\ configured' = [configured EXCEPT ![s] = @ \/ cfg.ok]
               /\ logged' = IF cfg.ok THEN logged
                                      ELSE Log(s, "Deepgram configure failed")
               /\ UNCHANGED <<task, twOpen>>
          ELSE IF m.event = "media" /\ configured[s]
          THEN /\ dgOut' = [dgOut EXCEPT ![s] = fwd.out]
               /\ logged' = IF fwd.ok THEN logged
                                      ELSE Log(s, "Error sending media to Deepgram")
               /\ UNCHANGED <<task, twOpen, configured>>
          ELSE IF m.event = "stop"
          THEN /\ task' = end
               /\ UNCHANGED <<twOpen, configured, dgOut, logged>>
          ELSE UNCHANGED <<task, twOpen, configured, dgOut, logged>>
  /\ UNCHANGED <<dispatchVars, currentCallSid, phase, wsSid, dgOpen, httpOpen,
                 dgIn, queue, enq, deq, updates>>

\* Lines 180-188: a message of a transcript type whose first alternative
\* holds text after stripping is queued; nothing else is looked at.
TranscriptTypes == {"Results", "transcript", "transcripts"}
Queues(m) == m.evtype \in TranscriptTypes /\ Strip(m.transcript) # <<>>

\* Line 190, ai_response_queue.put, and line 245, ai_response_queue.get.
PutFront(q, t) == <<t>> \o q
Put(q, t) == Append(q, t)

\* Lines 171-196, deepgram_listener(): one message of the socket.
DgRecv(s, maxMsgs, msgs) ==
  /\ phase[s] = "ACTIVE"
  /\ task[s].dg = "run"
  /\ dgOpen[s]
  /\ Len(dgIn[s]) < maxMsgs
  /\ \E m \in msgs :
       /\ dgIn' = [dgIn EXCEPT ![s] = Append(@, m)]
       /\ IF m.wstype # "TEXT" \/ ~m.json
          THEN UNCHANGED <<task, queue, enq, logged>>
          ELSE IF m.evtype \in TranscriptTypes /\ m.alts = 0
          THEN /\ task' = [task EXCEPT ![s].dg = "done"]
               /\ logged' = Log(s, "deepgram_listener exception")
               /\ UNCHANGED <<queue, enq>>
          ELSE IF Queues(m)
          THEN /\ queue' = [queue EXCEPT ![s] = Put(@, Strip(m.transcript))]
               /\ enq' = [enq EXCEPT ![s] = Append(@, Strip(m.transcript))]
               /\ UNCHANGED <<task, logged>>
          ELSE UNCHANGED <<task, queue, enq, logged>>
  /\ UNCHANGED <<dispatchVars, currentCallSid, phase, wsSid, twOpen, dgOpen,
                 httpOpen, configured, twIn, dgOut, deq, updates>>

\* The transcription provider closes its socket, or the connection is lost.
DgDrop(s) ==
  /\ phase[s] = "ACTIVE"
  /\ dgOpen[s]
  /\ dgOpen' = [dgOpen EXCEPT ![s] = FALSE]
  /\ UNCHANGED <<dispatchVars, currentCallSid, phase, wsSid, twOpen, httpOpen,
                 task, configured, twIn, dgOut, dgIn, queue, enq, deq, updates,
                 logged>>

\* Lines 173 and 195-196: `async for msg in dg_ws` ends on the closed socket
\* and the task finishes.
DgListenerEnd(s) ==
  /\ phase[s] = "ACTIVE"
  /\ task[s].dg = "run"
  /\ ~dgOpen[s]
  /\ task' = [task EXCEPT ![s].dg = "done"]
  /\ UNCHANGED <<dispatchVars, currentCallSid, phase, wsSid, twOpen, dgOpen,
                 httpOpen, configured, twIn, dgOut, dgIn, queue, enq, deq,
                 updates, logged>>

\* Line 263: the call the reply is spoken into.
ReplyTargetOwn(s) == wsSid[s]
ReplyTarget(s) == currentCallSid

\* Line 256: the reply text, or the filler when the completion is blank.
AiText(x) == IF Strip(x) = <<>> THEN Filler ELSE Strip(x)

\* A reply listener whose handler is outside the loop: an error ends the task.
AiStepDiesOnError(s) ==
  /\ phase[s] = "ACTIVE"
  /\ task[s].ai = "run"
  /\ queue[s] # <<>>
  /\ queue' = [queue EXCEPT ![s] = Tail(@)]
  /\ deq' = [deq EXCEPT ![s] = Append(@, Head(queue[s]))]
  /\ LET user_text == Head(queue[s]) IN
     IF user_text = <<>> THEN UNCHANGED <<updates, logged, task>>
     ELSE
     \/ /\ logged' = Log(s, "AI responder error")
        /\ task' = [task EXCEPT ![s].ai = "done"]
        /\ UNCHANGED updates
     \/ \E x \in LlmTexts :
          IF ReplyTarget(s) = NoSid
          THEN /\ logged' = Log(s, "No CALL_SID available")
               /\ UNCHANGED <<updates, task>>
          ELSE /\ updates' = Append(updates,
                       [call |-> ReplyTarget(s), say |-> AiText(x),
                        session |-> s, heard |-> user_text])
               /\ UNCHANGED <<logged, task>>
  /\ UNCHANGED <<dispatchVars, currentCallSid, phase, wsSid, twOpen, dgOpen,
                 httpOpen, configured, twIn, dgOut, dgIn, enq>>

\* Lines 244-275, ai_responder(): one transcript is taken off the queue and
\* answered.  The model call and the call update are blocking calls, so the
\* whole turn is one step of the event loop.
AiStep(s) ==
  /\ phase[s] = "ACTIVE"
  /\ task[s].ai = "run"
  /\ queue[s] # <<>>
  /\ queue' = [queue EXCEPT ![s] = Tail(@)]
  /\ deq' = [deq EXCEPT ![s] = Append(@, Head(queue[s]))]
  /\ LET user_text == Head(queue[s]) IN
     IF user_text = <<>> THEN UNCHANGED <<updates, logged>>
     ELSE
     \/ /\ logged' = Log(s, "AI responder error")
        /\ UNCHANGED updates
     \/ \E x \in LlmTexts :
          IF ReplyTarget(s) = NoSid
          THEN /\ logged' = Log(s, "No CALL_SID available")
               /\ UNCHANGED updates
          ELSE /\ updates' = Append(updates,
                       [call |-> ReplyTarget(s), say |-> AiText(x),
                        session |-> s, heard |-> user_text])
               /\ UNCHANGED logged
  /\ UNCHANGED <<dispatchVars, currentCallSid, phase, wsSid, twOpen, dgOpen,
                 httpOpen, task, configured, twIn, dgOut, dgIn, enq>>

\* Lines 287-288: every task that has not finished is cancelled.
Cancel(t) ==
  [k \in {"tw", "dg", "ai"} |-> IF t[k] = "run" THEN "cancelled" ELSE t[k]]

\* Lines 284-297: asyncio.wait returns as soon as one task has finished;
\* the tasks are cancelled and the transcription socket, the telephony
\* socket and the client session are closed in that order, inside one try.
\* Closing a telephony socket whose peer has already gone may raise in the
\* server, which skips the close of the client session.
TeardownKeepsTwilio(s) ==
  /\ phase[s] = "ACTIVE"
  /\ \E k \in {"tw", "dg", "ai"} : task[s][k] = "done"
  /\ task' = [task EXCEPT ![s] = Cancel(@)]
  /\ phase' = [phase EXCEPT ![s] = "CLOSED"]
  /\ dgOpen' = [dgOpen EXCEPT ![s] = FALSE]
  /\ httpOpen' = [httpOpen EXCEPT ![s] = FALSE]
  /\ UNCHANGED <<dispatchVars, currentCallSid, wsSid, twOpen, configured, twIn,
                 dgOut, dgIn, queue, enq, deq, updates, logged>>
\* A handler that waited for all three tasks (ALL_COMPLETED).
TeardownWhenAllDone(s) ==
  /\ phase[s] = "ACTIVE"
  /\ \A k \in {"tw", "dg", "ai"} : task[s][k] = "done"
  /\ task' = [task EXCEPT ![s] = Cancel(@)]
  /\ phase' = [phase EXCEPT ![s] = "CLOSED"]
  /\ dgOpen' = [dgOpen EXCEPT ![s] = FALSE]
  /\ twOpen' = [twOpen EXCEPT ![s] = FALSE]
  /\ httpOpen' = [httpOpen EXCEPT ![s] = FALSE]
  /\ UNCHANGED <<dispatchVars, currentCallSid, wsSid, configured, twIn, dgOut,
                 dgIn, queue, enq, deq, updates, logged>>
Teardown(s) ==
  /\ phase[s] = "ACTIVE"
  /\ \E k \in {"tw", "dg", "ai"} : task[s][k] = "done"
  /\ task' = [task EXCEPT ![s] = Cancel(@)]
  /\ phase' = [phase EXCEPT ![s] = "CLOSED"]
  /\ dgOpen' = [dgOpen EXCEPT ![s] = FALSE]
  /\ twOpen' = [twOpen EXCEPT ![s] = FALSE]
  /\ \/ /\ httpOpen' = [httpOpen EXCEPT ![s] = FALSE]
        /\ UNCHANGED logged
     \/ /\ ~twOpen[s]
        /\ logged' = Log(s, "Cleanup exception")
        /\ UNCHANGED httpOpen
  /\ UNCHANGED <<dispatchVars, currentCallSid, wsSid, configured, twIn, dgOut,
                 dgIn, queue, enq, deq, updates>>

(***************************************************************************)
(* Initial states.                                                         *)
(***************************************************************************)
InitDispatchVars(sheets) ==
  /\ sheet \in sheets
  /\ pc = [d \in Dispatchers |-> "idle"]
  /\ lead = [d \in Dispatchers |-> NoLocal]
  /\ trigOf = [d \in Dispatchers |-> 0]
  /\ nTrig = 0
  /\ reads = <<>>
  /\ calls = <<>>
  /\ writes = <<>>
  /\ responses = <<>>

InitRelayVars ==
  /\ phase = [s \in Sessions |-> "NONE"]
  /\ wsSid = [s \in Sessions |-> NoSid]
  /\ twOpen = [s \in Sessions |-> FALSE]
  /\ dgOpen = [s \in Sessions |-> FALSE]
  /\ httpOpen = [s \in Sessions |-> FALSE]
  /\ task = [s \in Sessions |-> [tw |-> "none", dg |-> "none", ai |-> "none"]]
  /\ configured = [s \in Sessions |-> FALSE]
  /\ twIn = [s \in Sessions |-> <<>>]
  /\ dgOut = [s \in Sessions |-> <<>>]
  /\ dgIn = [s \in Sessions |-> <<>>]
  /\ queue = [s \in Sessions |-> <<>>]
  /\ enq = [s \in Sessions |-> <<>>]
  /\ deq = [s \in Sessions |-> <<>>]
  /\ updates = <<>>
  /\ logged = [s \in Sessions |-> {}]

(***************************************************************************)
(* The dispatcher alone: every spreadsheet of NumRows records, two worker  *)
(* threads, MaxTriggers triggers.                                          *)
(***************************************************************************)
InitDispatch ==
  /\ InitDispatchVars(Sheets(NumRows))
  /\ currentCallSid = NoSid
  /\ InitRelayVars

NextDispatch ==
  \E d \in Dispatchers :
    \/ Trigger(d, MaxTriggers)
    \/ PlaceCall(d)
    \/ WriteStatus(d)
    \/ WriteSid(d)

SpecDispatch == InitDispatch /\ [][NextDispatch]_vars

(***************************************************************************)
(* Triggers one at a time: a single worker thread, so that a trigger is    *)
(* served only after the previous one has returned.                        *)
(***************************************************************************)
NextSequential ==
  \/ Trigger(1, MaxTriggers)
  \/ PlaceCall(1)
  \/ WriteStatus(1)
  \/ WriteSid(1)

SpecSequential == InitDispatch /\ [][NextSequential]_vars

(***************************************************************************)
(* One call session, its telephony side in detail: MaxTwEvents events of   *)
(* the telephony socket, no message from the transcription provider.       *)
(***************************************************************************)
InitRelay ==
  /\ InitDispatchVars({<<>>})
  /\ currentCallSid = NoSid
  /\ InitRelayVars

NextAudio ==
  \/ WsOpen(1, {Sid(1)})
  \/ DgConnect(1)
  \/ TwilioRecv(1, MaxTwEvents, TwMsgs(AudioChunks))
  \/ DgDrop(1)
  \/ DgListenerEnd(1)
  \/ Teardown(1)

SpecAudio == InitRelay /\ [][NextAudio]_vars

(***************************************************************************)
(* One call session, its transcription side in detail: MaxDgMsgs messages  *)
(* of the transcription provider, one event of the telephony socket.       *)
(***************************************************************************)
NextReply ==
  \/ WsOpen(1, {NoSid, Sid(1)})
  \/ DgConnect(1)
  \/ TwilioRecv(1, 1, {TwEvent("stop"), TwDisconnect})
  \/ DgRecv(1, MaxDgMsgs, DgMsgs)
  \/ AiStep(1)
  \/ DgDrop(1)
  \/ DgListenerEnd(1)
  \/ Teardown(1)

SpecReply == InitRelay /\ [][NextReply]_vars

(***************************************************************************)
(* One call session from connection to teardown, all three listeners       *)
(* running.  asyncio.wait(..., FIRST_COMPLETED) wakes the handler as soon  *)
(* as a task has finished and the event loop runs every ready task, so the *)
(* teardown is not postponed for ever: weak fairness on Teardown.          *)
(***************************************************************************)
SessionTwMsgs ==
  {TwEvent("start"), TwEvent("stop"), TwDisconnect, TwMedia(B64Encode(<<255>>)),
   TwMsg("websocket.receive", "malformed", "", FALSE, <<>>)}

SessionDgMsgs ==
  {DgMsg("TEXT", TRUE, "Results", 1, <<"a">>, TRUE),
   DgMsg("TEXT", TRUE, "Results", 0, <<>>, TRUE)}

NextSession ==
  \/ WsOpen(1, {Sid(1)})
  \/ DgConnect(1)
  \/ TwilioRecv(1, MaxTwEvents, SessionTwMsgs)
  \/ DgRecv(1, MaxHeard, SessionDgMsgs)
  \/ AiStep(1)
  \/ DgDrop(1)
  \/ DgListenerEnd(1)
  \/ Teardown(1)

SpecSession == InitRelay /\ [][NextSession]_vars /\ WF_vars(Teardown(1))

(***************************************************************************)
(* The whole process: the dispatcher and two call sessions on one event    *)
(* loop, each session with one telephony event and MaxHeard transcripts;   *)
(* the transcription sockets stay up.                                      *)
(***************************************************************************)
Init ==
  /\ InitDispatchVars({<<Row("Pending", "+15550100")>>})
  /\ currentCallSid = NoSid
  /\ InitRelayVars

Next ==
  \/ Trigger(1, 1)
  \/ PlaceCall(1)
  \/ WriteStatus(1)
  \/ WriteSid(1)
  \/ \E s \in Sessions :
       \/ WsOpen(s, {Sid(s)})
       \/ DgConnect(s)
       \/ TwilioRecv(s, 1, {TwEvent("stop")})
       \/ DgRecv(s, MaxHeard, {DgMsg("TEXT", TRUE, "Results", 1, <<"a">>, TRUE)})
       \/ AiStep(s)
       \/ Teardown(s)

Spec == Init /\ [][Next]_vars

(***************************************************************************)
(* Properties of the dispatcher.                                           *)
(***************************************************************************)
\* The response a step returns, when the step returns one.
Returns == Len(responses') = Len(responses) + 1
Returned == responses'[Len(responses')]

\* The claims speak of the first pending record in their own words, not in
\* those of get_pending_lead.
PendingRecords(sh) == {k \in DOMAIN sh : Lower(sh[k].Status) = "pending"}
FirstPendingRecord(sh) ==
  CHOOSE k \in PendingRecords(sh) : \A j \in PendingRecords(sh) : k <= j

WritesOf(ws, t, col) == {i \in DOMAIN ws : ws[i].trig = t /\ ws[i].col = col}
CallsOf(cs, t) == {i \in DOMAIN cs : cs[i].trig = t}

\* A step that serves a new trigger (it reads the store).
Triggers == nTrig' = nTrig + 1
ReadSucceeds == reads'[Len(reads')]

C4_NoPendingIsComplete ==
  [][(Triggers /\ PendingRecords(sheet) = {}) =>
       /\ Returns /\ Returned.status = "complete" /\ Returned.trig = nTrig'
       /\ calls' = calls
       /\ writes' = writes
       /\ sheet' = sheet
       /\ pc' = pc]_vars

\* C4 witness: a trigger was answered "complete" by a store that was read
\* and holds no pending record (nothing was ever written or called, so the
\* store is as the trigger found it).
C4_Witness ==
  /\ PendingRecords(sheet) = {}
  /\ writes = <<>> /\ calls = <<>>
  /\ \E i \in DOMAIN responses :
       responses[i].status = "complete" /\ reads[responses[i].trig]

\* C5 as stated: a trigger whose selected lead (the first pending record, the
\* store read having succeeded) has an empty phone returns "skipped" for that
\* row, places no call and changes nothing in the store; and once a trigger
\* has been skipped for a row, every later trigger returns "skipped" for
\* that same row.
C5_SkippedAgainOnEveryTrigger ==
  [][/\ (Triggers /\ ReadSucceeds /\ PendingRecords(sheet) # {}
          /\ sheet[FirstPendingRecord(sheet)].Phone = "") =>
         /\ Returns /\ Returned.status = "skipped" /\ Returned.trig = nTrig'
         /\ Returned.row = RowNumber(FirstPendingRecord(sheet))
         /\ calls' = calls /\ writes' = writes /\ sheet' = sheet /\ pc' = pc
     /\ \A i \in DOMAIN responses :
         (Triggers /\ responses[i].status = "skipped") =>
           /\ Returns /\ Returned.status = "skipped"
           /\ Returned.row = responses[i].row]_vars

\* C5 as amended: the same, where the later triggers are those whose store
\* read succeeds (a trigger whose read fails returns "complete").
C5_SkippedAgainWhenReadSucceeds ==
  [][/\ (Triggers /\ ReadSucceeds /\ PendingRecords(sheet) # {}
          /\ sheet[FirstPendingRecord(sheet)].Phone = "") =>
         /\ Returns /\ Returned.status = "skipped" /\ Returned.trig = nTrig'
         /\ Returned.row = RowNumber(FirstPendingRecord(sheet))
         /\ calls' = calls /\ writes' = writes /\ sheet' = sheet /\ pc' = pc
     /\ \A i \in DOMAIN responses :
         (Triggers /\ ReadSucceeds /\ responses[i].status = "skipped") =>
           /\ Returns /\ Returned.status = "skipped"
           /\ Returned.row = responses[i].row
           /\ Lower(sheet'[RecordAt(Returned.row)].Status) = "pending"
     /\ (Triggers /\ ~ReadSucceeds) =>
           Returns /\ Returned.status = "complete"]_vars

\* C5 witness: two triggers were skipped for the same row, which is still
\* pending and still has no phone.
C5_Witness ==
  \E i, j \in DOMAIN responses :
    /\ i < j
    /\ responses[i].status = "skipped" /\ responses[j].status = "skipped"
    /\ responses[i].row = responses[j].row
    /\ sheet[RecordAt(responses[i].row)].Phone = ""
    /\ Lower(sheet[RecordAt(responses[i].row)].Status) = "pending"

\* A step in which the provider refuses to place the call.
PlacementFails == Len(calls') = Len(calls) + 1 /\ ~calls'[Len(calls')].ok

\* C6: when the provider's call placement fails, the trigger returns HTTP 500
\* with the provider's error text in that same step; the step changes no
\* cell of the store; the trigger has made one placement attempt and no
\* write, and never makes another (its thread is free again and nothing is
\* ever logged for it afterwards); the selected row is still pending unless
\* some other dispatch has written to it.
C6_ProviderFailureIs500 ==
  [][/\ PlacementFails =>
         LET c == calls'[Len(calls')] IN
         /\ Returns /\ Returned.trig = c.trig /\ Returned.row = c.row
         /\ Returned.http = 500 /\ Returned.status = "error"
         /\ Returned.detail = c.err /\ c.err \in ProviderErrors
         /\ sheet' = sheet /\ writes' = writes
         /\ \A d \in Dispatchers : trigOf'[d] # c.trig
         /\ (\A i \in DOMAIN writes : writes[i].row # c.row) =>
               Lower(sheet'[RecordAt(c.row)].Status) = "pending"
     /\ \A i \in DOMAIN responses' :
         responses'[i].http = 500 =>
           /\ Cardinality(CallsOf(calls', responses'[i].trig)) = 1
           /\ \A j \in DOMAIN writes' : writes'[j].trig # responses'[i].trig]_vars

\* C6 witness: a trigger ended in HTTP 500 after a failed placement, and the
\* row it had selected is still pending.
C6_Witness ==
  \E i \in DOMAIN responses :
    /\ responses[i].http = 500
    /\ responses[i].detail \in ProviderErrors
    /\ \E j \in DOMAIN calls : calls[j].trig = responses[i].trig /\ ~calls[j].ok
    /\ Lower(sheet[RecordAt(responses[i].row)].Status) = "pending"
    /\ nTrig > responses[i].trig

\* C11: nothing between the read and the write looks at the status again.
\* While a dispatch holds a row it has read (the call not yet placed, or
\* placed and the status not yet written) and the row is still pending, a
\* second trigger on a free thread can read and select that same row; a
\* dispatch that has selected a row can always place its call, and one that
\* has placed its call can always write "Calling", whatever the row's status
\* has become in the meantime.
C11_ConcurrentTriggersCanRace ==
  \A d \in Dispatchers :
    /\ pc[d] = "placing" =>
          ENABLED (PlaceCall(d) /\ calls'[Len(calls')].ok
                     /\ calls'[Len(calls')].row = lead[d].row)
    /\ pc[d] = "writeStatus" =>
          ENABLED (WriteStatus(d) /\ writes' # writes
                     /\ writes'[Len(writes')].row = lead[d].row
                     /\ writes'[Len(writes')].val = "Calling")
    /\ \A e \in Dispatchers \ {d} :
         (/\ pc[d] \in {"placing", "writeStatus"}
          /\ pc[e] = "idle" /\ nTrig < MaxTriggers
          /\ Lower(sheet[RecordAt(lead[d].row)].Status) = "pending") =>
           ENABLED (Trigger(e, MaxTriggers) /\ pc'[e] = "placing"
                      /\ lead'[e].row = lead[d].row)

\* C11 witness: two different triggers each placed a call to the same row
\* and each wrote "Calling" to it, the second having read the row before the
\* first wrote.
C11_Witness ==
  \E i, j \in DOMAIN calls : \E a, b \in DOMAIN writes :
    /\ calls[i].ok /\ calls[j].ok
    /\ calls[i].trig # calls[j].trig /\ calls[i].row = calls[j].row
    /\ calls[i].to = calls[j].to
    /\ writes[a].trig = calls[i].trig /\ writes[b].trig = calls[j].trig
    /\ writes[a].col = StatusCol /\ writes[b].col = StatusCol
    /\ writes[a].row = calls[i].row /\ writes[b].row = calls[i].row
    /\ writes[a].val = "Calling" /\ writes[b].val = "Calling"
    /\ sheet[RecordAt(calls[i].row)].Status = "Calling"

\* The "complete" result of trigger t: no row, no call identifier.
CompleteResponse(t) ==
  [trig |-> t, status |-> "complete", row |-> 0, call_sid |-> NoSid,
   http |-> 200, detail |-> ""]

\* C18: a trigger whose store read fails returns "complete" in that same
\* step, places no call and writes nothing, whatever the store holds; and
\* the result is, field for field, the one a trigger returns whose read
\* succeeds on a store with no pending record.
C18_ReadFailureIsComplete ==
  [][/\ (Triggers /\ ~ReadSucceeds) =>
          /\ Returns /\ Returned = CompleteResponse(nTrig')
          /\ calls' = calls /\ writes' = writes /\ sheet' = sheet /\ pc' = pc
     /\ (Triggers /\ ReadSucceeds /\ PendingRecords(sheet) = {}) =>
          Returns /\ Returned = CompleteResponse(nTrig')]_vars

\* C18 witness: a trigger whose read failed was answered "complete" although
\* the store holds a pending lead with a phone number, and a later trigger,
\* whose read succeeded, went on to call that lead.
C18_Witness ==
  \E i \in DOMAIN responses : \E j \in DOMAIN calls :
    /\ responses[i].status = "complete"
    /\ ~reads[responses[i].trig]
    /\ calls[j].trig > responses[i].trig
    /\ calls[j].ok /\ calls[j].to # ""

\* The first pending record has no phone number.
HeadOfLineBlocked(sh) ==
  PendingRecords(sh) # {} /\ sh[FirstPendingRecord(sh)].Phone = ""
PendingRows(sh) == {RowNumber(k) : k \in PendingRecords(sh)}

\* C19 as stated: while the first pending record has an empty phone, a step
\* places no call to a pending row and changes no pending record, and every
\* trigger returns "skipped" for the row of that first pending record.
C19_HeadOfLineBlocksEveryTrigger ==
  [][HeadOfLineBlocked(sheet) =>
       /\ Len(calls') > Len(calls) => calls'[Len(calls')].row \notin PendingRows(sheet)
       /\ \A k \in PendingRecords(sheet) : sheet'[k] = sheet[k]
       /\ Triggers =>
            /\ Returns /\ Returned.status = "skipped"
            /\ Returned.row = RowNumber(FirstPendingRecord(sheet))]_vars

\* C19 as amended: the same, where the triggers that return "skipped" for
\* the first pending row are those whose store read succeeds; a trigger
\* whose read fails returns "complete"; either way the trigger ends in that
\* step without a call or a write.
C19_HeadOfLineBlocksWhenReadSucceeds ==
  [][HeadOfLineBlocked(sheet) =>
       /\ Len(calls') > Len(calls) => calls'[Len(calls')].row \notin PendingRows(sheet)
       /\ \A k \in PendingRecords(sheet) : sheet'[k] = sheet[k]
       /\ HeadOfLineBlocked(sheet')
       /\ FirstPendingRecord(sheet') = FirstPendingRecord(sheet)
       /\ Triggers =>
            /\ Returns /\ pc' = pc /\ calls' = calls /\ writes' = writes
            /\ ReadSucceeds =>
                  /\ Returned.status = "skipped"
                  /\ Returned.row = RowNumber(FirstPendingRecord(sheet))
            /\ ~ReadSucceeds => Returned.status = "complete"]_vars

\* C19 witness: the first pending record has no phone, a later pending
\* record has one; two triggers were skipped for the first, and no call was
\* ever placed.
C19_Witness ==
  /\ HeadOfLineBlocked(sheet)
  /\ \E k \in PendingRecords(sheet) :
       k > FirstPendingRecord(sheet) /\ sheet[k].Phone # ""
  /\ calls = <<>> /\ writes = <<>>
  /\ Len(responses) >= 2
  /\ \A i \in DOMAIN responses :
       /\ responses[i].status = "skipped"
       /\ responses[i].row = RowNumber(FirstPendingRecord(sheet))

\* So far every call placement has succeeded and every dispatch that
\* returned "calling" had written the status and the call identifier.
AllSucceeded ==
  /\ \A i \in DOMAIN calls : calls[i].ok
  /\ \A i \in DOMAIN responses :
       responses[i].status = "calling" =>
         /\ WritesOf(writes, responses[i].trig, StatusCol) # {}
         /\ WritesOf(writes, responses[i].trig, SidCol) # {}

\* C20: with triggers served one at a time, as long as every placement and
\* every write has succeeded, the rows called are strictly increasing (so
\* none is called twice); a trigger that goes on to place a call has
\* selected the lowest record still pending, and calls that row; and when it
\* returns "calling" with its writes done, that row is no longer pending,
\* with no other trigger under way.
C20_SequentialTriggersCallInOrder ==
  /\ [](AllSucceeded =>
          \A i, j \in DOMAIN calls : i < j => calls[i].row < calls[j].row)
  /\ [][/\ (Triggers /\ ~Returns) =>
            /\ PendingRecords(sheet) # {}
            /\ lead'[1].row = RowNumber(FirstPendingRecord(sheet))
        /\ Len(calls') > Len(calls) =>
            /\ calls'[Len(calls')].row = lead[1].row
            /\ calls'[Len(calls')].to = sheet[RecordAt(lead[1].row)].Phone
        /\ (Returns /\ Returned.status = "calling"
              /\ WritesOf(writes', Returned.trig, StatusCol) # {}) =>
            /\ Lower(sheet'[RecordAt(Returned.row)].Status) # "pending"
            /\ \A d \in Dispatchers : pc'[d] = "idle"]_vars

\* C20 witness: two triggers, one after the other, called the first and then
\* the second record, every write succeeded, and both rows are "Calling"
\* with their own call identifiers.
C20_Witness ==
  /\ AllSucceeded
  /\ Len(calls) = 2 /\ Len(responses) = 2
  /\ calls[1].row = RowNumber(1) /\ calls[2].row = RowNumber(2)
  /\ responses[1].status = "calling" /\ responses[2].status = "calling"
  /\ sheet[1].Status = "Calling" /\ sheet[2].Status = "Calling"
  /\ sheet[1].CallSid = calls[1].sid /\ sheet[2].CallSid = calls[2].sid
  /\ sheet[1].CallSid # sheet[2].CallSid

(***************************************************************************)
(* Properties of the audio relay.                                          *)
(***************************************************************************)
Sent(s, kind) == SelectSeq(dgOut[s], LAMBDA e : e.kind = kind)
SentNext(s, kind) == SelectSeq(dgOut'[s], LAMBDA e : e.kind = kind)

\* A media event as the telephony provider builds it: a JSON text frame
\* whose payload is the base64 of a raw chunk; RawOf is that chunk.
WellFormedMedia(m) ==
  /\ m.type = "websocket.receive" /\ m.body = "json" /\ m.event = "media"
  /\ m.hasPayload
  /\ \E c \in AudioChunks : m.payload = B64Encode(c)
RawOf(m) == CHOOSE c \in AudioChunks : m.payload = B64Encode(c)

\* start, then N well-formed media events, then stop.
StartMediaStop(in) ==
  /\ Len(in) >= 2
  /\ in[1] = TwEvent("start")
  /\ in[Len(in)] = TwEvent("stop")
  /\ \A i \in 2..(Len(in) - 1) : WellFormedMedia(in[i])

\* C1: in the step that receives the stop event of an input start, N media
\* events, stop (N >= 0), with the transcription socket open (it cannot have
\* been closed earlier, and the telephony socket has not disconnected),
\* exactly N audio frames have been forwarded, exactly one configuration
\* message has been sent, and it precedes every forwarded frame.
C1_StartMediaStopForwardsAll ==
  [][\A s \in Sessions :
       (twIn'[s] # twIn[s] /\ StartMediaStop(twIn'[s]) /\ dgOpen[s]) =>
         /\ Len(SentNext(s, "audio")) = Len(twIn'[s]) - 2
         /\ Len(SentNext(s, "config")) = 1
         /\ dgOut'[s][1] = ConfigMsg
         /\ \A i \in DOMAIN dgOut'[s] : dgOut'[s][i].kind = "audio" => i > 1]_vars

\* C1 witness: start, two media events and stop have been received, and two
\* audio frames were forwarded after the one configuration message.
C1_Witness ==
  /\ StartMediaStop(twIn[1]) /\ Len(twIn[1]) = 4
  /\ Len(Sent(1, "audio")) = 2 /\ Len(Sent(1, "config")) = 1
  /\ task[1].tw = "done"

\* C2: once the transcription listener has finished (the provider's socket
\* closed) while the telephony socket is open, the handler's teardown is
\* enabled, and the step in which the session leaves ACTIVE takes it to
\* CLOSED with no task running and both sockets closed.
C2_TranscriptionCloseTearsDown ==
  [][\A s \in Sessions :
       /\ (phase[s] = "ACTIVE" /\ task[s].dg = "done" /\ twOpen[s]) =>
            ENABLED Teardown(s)
       /\ (phase[s] = "ACTIVE" /\ phase'[s] # "ACTIVE") =>
            /\ phase'[s] = "CLOSED"
            /\ ~dgOpen'[s] /\ ~twOpen'[s]
            /\ \A k \in {"tw", "dg", "ai"} : task'[s][k] # "run"]_vars

\* C2 witness: the session is CLOSED with both sockets closed; it was the
\* transcription listener that finished, the socket having been closed by
\* the provider, and the telephony listener was cancelled while running.
C2_Witness ==
  /\ phase[1] = "CLOSED"
  /\ task[1].dg = "done" /\ task[1].tw = "cancelled"
  /\ "deepgram_listener exception" \notin logged[1]
  /\ ~dgOpen[1] /\ ~twOpen[1]
  /\ twIn[1] # <<>>

\* Is a a subsequence of b (a's elements, in a's order, among b's)?
RECURSIVE IsSubseq(_, _)
IsSubseq(a, b) ==
  IF a = <<>> THEN TRUE
  ELSE IF b = <<>> THEN FALSE
  ELSE IF Head(a) = Head(b) THEN IsSubseq(Tail(a), Tail(b))
  ELSE IsSubseq(a, Tail(b))

ReceivedChunks(s) ==
  LET q == SelectSeq(twIn[s], WellFormedMedia) IN [i \in DOMAIN q |-> RawOf(q[i])]
ForwardedChunks(s) ==
  LET q == Sent(s, "audio") IN [i \in DOMAIN q |-> q[i].data]

\* C7: the audio frames sent to the transcription socket are a subsequence
\* of the raw chunks of the media events received, and each forwarded frame
\* comes from a later event than the frame before it (none twice, none out
\* of order).
C7_ForwardedInOrder ==
  \A s \in Sessions :
    /\ IsSubseq(ForwardedChunks(s), ReceivedChunks(s))
    /\ \A i, j \in DOMAIN Sent(s, "audio") :
         i < j => Sent(s, "audio")[i].ev < Sent(s, "audio")[j].ev

\* C7 witness: three media events with different chunks were received, the
\* first before the start event; the other two were forwarded, in order.
C7_Witness ==
  /\ Len(ReceivedChunks(1)) = 3
  /\ Len(ForwardedChunks(1)) = 2
  /\ ForwardedChunks(1)[1] # ForwardedChunks(1)[2]
  /\ ForwardedChunks(1) = SubSeq(ReceivedChunks(1), 2, 3)
  /\ ReceivedChunks(1)[1] # ReceivedChunks(1)[2]

\* C9: every audio frame sent to the transcription socket comes from a media
\* event whose payload is the base64 of some raw chunk, and its bytes are
\* that chunk; apart from the configuration message and the priming
\* silence, nothing else is sent.
C9_ForwardedBytesAreRaw ==
  \A s \in Sessions :
    \A i \in DOMAIN dgOut[s] :
      LET e == dgOut[s][i] IN
      /\ e.kind \in {"config", "silence", "audio"}
      /\ e.kind = "audio" =>
           /\ e.ev \in DOMAIN twIn[s]
           /\ WellFormedMedia(twIn[s][e.ev])
           /\ \A c \in AudioChunks :
                twIn[s][e.ev].payload = B64Encode(c) => e.data = c

\* C9 witness: the four-byte chunk, whose base64 has two groups and padding,
\* was forwarded byte for byte.
C9_Witness ==
  \E i \in DOMAIN dgOut[1] :
    /\ dgOut[1][i].kind = "audio"
    /\ dgOut[1][i].data = <<255, 0, 77, 128>>
    /\ twIn[1][dgOut[1][i].ev].payload = <<63, 48, 1, 13, 32, 0, 64, 64>>

\* The lines printed for a streaming error inside the telephony listener.
StreamingErrors == {"Error sending media to Deepgram", "Deepgram configure failed"}

\* C12: a step of the telephony listener that logs a streaming error (a
\* failed forward of a media frame, a failed send of the configuration)
\* ends the listener, so that the session is torn down; and once such an
\* error is logged, nothing more is sent to the transcription socket.
C12_StreamingErrorTearsDown ==
  [][\A s \in Sessions :
       /\ (twIn'[s] # twIn[s] /\ logged'[s] # logged[s]
             /\ (logged'[s] \ logged[s]) \subseteq StreamingErrors) =>
            task'[s].tw # "run"
       /\ (logged[s] \cap StreamingErrors # {}) => dgOut'[s] = dgOut[s]]_vars

\* C13: a session whose connection to the transcription provider could not
\* be opened (the failure is caught and logged by websocket_endpoint) has
\* never started a listener task and is CLOSED with the provider connection,
\* its client session and the telephony socket all closed.
C13_ConnectFailureClosesAll ==
  \A s \in Sessions :
    "WebSocket conversation handler failed" \in logged[s] =>
      /\ phase[s] = "CLOSED"
      /\ \A k \in {"tw", "dg", "ai"} : task[s][k] = "none"
      /\ ~dgOpen[s] /\ ~httpOpen[s] /\ ~twOpen[s]

\* C14: in every session the configuration message is sent at most once,
\* and so is its priming silence, whatever the telephony events are.
C14_ConfiguredAtMostOnce ==
  \A s \in Sessions :
    /\ Len(Sent(s, "config")) <= 1
    /\ Len(Sent(s, "silence")) <= 1

\* C15: as soon as any one listener of an active session has finished, the
\* handler's teardown is enabled; and once the telephony listener has
\* finished (a stop event, a disconnect, or an error that ended it), or any
\* other listener has, the session eventually is CLOSED with no task left
\* running and both provider connections closed.
C15_StopLeadsToClosed ==
  /\ [](\A s \in Sessions :
          (phase[s] = "ACTIVE" /\ \E k \in {"tw", "dg", "ai"} : task[s][k] = "done")
            => ENABLED Teardown(s))
  /\ \A s \in Sessions :
       (\E k \in {"tw", "dg", "ai"} : task[s][k] = "done") ~>
         (/\ phase[s] = "CLOSED"
          /\ \A k \in {"tw", "dg", "ai"} : task[s][k] # "run"
          /\ ~dgOpen[s] /\ ~twOpen[s])

\* C15 witness: the telephony listener finished on a stop event after
\* audio was relayed, the two other listeners were cancelled while running,
\* and the session is CLOSED with every connection closed.
C15_Witness ==
  /\ phase[1] = "CLOSED"
  /\ twIn[1] # <<>> /\ twIn[1][Len(twIn[1])] = TwEvent("stop")
  /\ Len(Sent(1, "audio")) > 0
  /\ task[1] = [tw |-> "done", dg |-> "cancelled", ai |-> "cancelled"]
  /\ ~dgOpen[1] /\ ~twOpen[1] /\ ~httpOpen[1]

(***************************************************************************)
(* Properties of the reply path.                                           *)
(***************************************************************************)
\* The transcripts the provider emitted, in order: the text, stripped, of
\* every parsed message of a transcript type that holds text.
EmittedTranscripts(s) ==
  LET q == SelectSeq(dgIn[s], LAMBDA m :
             /\ m.wstype = "TEXT" /\ m.json /\ m.evtype \in TranscriptTypes
             /\ m.alts > 0 /\ Strip(m.transcript) # <<>>)
  IN [i \in DOMAIN q |-> Strip(q[i].transcript)]

\* The finalized transcripts the provider emitted, in order: as above, of the
\* messages whose finality flag is set.
FinalTranscripts(s) ==
  LET q == SelectSeq(dgIn[s], LAMBDA m :
             /\ m.wstype = "TEXT" /\ m.json /\ m.evtype \in TranscriptTypes
             /\ m.alts > 0 /\ Strip(m.transcript) # <<>> /\ m.is_final)
  IN [i \in DOMAIN q |-> Strip(q[i].transcript)]

\* C16: what the transcription listener has put on the queue is the text of
\* the finalized transcripts with non-empty text, and nothing else: no
\* message whose finality flag is false and none whose text is empty after
\* trimming is enqueued.
C16_OnlyFinalizedEnqueued ==
  \A s \in Sessions :
    /\ enq[s] = FinalTranscripts(s)
    /\ \A i \in DOMAIN enq[s] : enq[s][i] # <<>>

\* C8: the transcripts taken off the queue, followed by those still waiting
\* on it, are the transcripts put on it, which are the transcripts the
\* provider emitted, in the provider's order, repeats included: what the
\* reply listener has dequeued is a prefix of what was enqueued.
C8_TranscriptsInOrder ==
  \A s \in Sessions :
    /\ deq[s] \o queue[s] = enq[s]
    /\ enq[s] = EmittedTranscripts(s)

\* C8 witness: the provider emitted a transcript, a different one and the
\* first one again, and the reply listener dequeued all three in that order.
C8_Witness ==
  /\ Len(deq[1]) = 3
  /\ deq[1][1] # deq[1][2] /\ deq[1][1] = deq[1][3]
  /\ deq[1] = EmittedTranscripts(1)

\* C17: the reply listener never finishes of its own accord, and it can
\* take the next transcript whenever one is waiting in an active session; a
\* turn of the reply listener leaves every task, the session's phase and its
\* sockets as they were and takes exactly the head of the queue; the turn in
\* which the reply path fails (the error is logged) speaks no reply.
C17_ReplyFailureKeepsSession ==
  /\ [](\A s \in Sessions :
          /\ task[s].ai # "done"
          /\ (phase[s] = "ACTIVE" /\ task[s].ai = "run" /\ queue[s] # <<>>)
               => ENABLED AiStep(s))
  /\ [][\A s \in Sessions :
          deq'[s] # deq[s] =>
            /\ task' = task /\ phase' = phase
            /\ twOpen' = twOpen /\ dgOpen' = dgOpen
            /\ queue'[s] = Tail(queue[s])
            /\ deq'[s] = Append(deq[s], Head(queue[s]))
            /\ "AI responder error" \in logged'[s] \ logged[s] =>
                  updates' = updates]_vars

\* C17 witness: the reply path failed on the first transcript (the error is
\* logged, no reply was spoken for it, a call identifier being available),
\* and the second transcript, a different one, was dequeued and answered in
\* the same session.
C17_Witness ==
  /\ Len(deq[1]) = 2 /\ deq[1][1] # deq[1][2]
  /\ "AI responder error" \in logged[1]
  /\ "No CALL_SID available" \notin logged[1]
  /\ wsSid[1] # NoSid
  /\ Len(updates) = 1
  /\ updates[1].heard = deq[1][2] /\ updates[1].session = 1
  /\ phase[1] = "ACTIVE" /\ task[1].ai = "run"

\* C10: every reply is spoken into the call whose identifier is in the
\* process-wide slot at that moment, whichever session heard the
\* transcript; and the slot holds the identifier last written by a media
\* connection's query parameter or by a dispatch's placed call.
C10_RepliesGoToTheSlot ==
  [][/\ updates' # updates =>
          /\ Len(updates') = Len(updates) + 1
          /\ updates'[Len(updates')].call = currentCallSid
     /\ currentCallSid' # currentCallSid =>
          \/ \E s \in Sessions :
               phase[s] = "NONE" /\ phase'[s] # "NONE" /\ wsSid'[s] = currentCallSid'
          \/ /\ Len(calls') = Len(calls) + 1
             /\ calls'[Len(calls')].ok
             /\ calls'[Len(calls')].sid = currentCallSid']_vars

\* C10 witness: two sessions are active, each for its own call, and a reply
\* to a transcript heard in one of them was spoken into the other's call.
C10_Witness ==
  \E i \in DOMAIN updates : \E other \in Sessions :
    LET u == updates[i] IN
    /\ other # u.session
    /\ phase[u.session] = "ACTIVE" /\ phase[other] = "ACTIVE"
    /\ wsSid[u.session] # NoSid /\ wsSid[other] # wsSid[u.session]
    /\ u.call = wsSid[other]
    /\ u.heard \in {enq[u.session][k] : k \in DOMAIN enq[u.session]}
    /\ enq[other] = <<>>

====
